---- MODULE Spec2Model ----
(***************************************************************************)
(* Ferry crossing simulation (src/ferry_cross.c): one ferry thread, one    *)
(* car thread per seat, and main, synchronised by four counting semaphores *)
(* (sem_board, sem_full, sem_unboard, sem_empty), one mutex and the shared *)
(* counter cars_on_board.                                                  *)
(*                                                                         *)
(* Time is abstracted to two bits, `expired` (elapsed >= PROGRAM_RUNTIME)  *)
(* and `late` (elapsed > PROGRAM_RUNTIME).                                 *)
(* Every statement that other threads can observe is one step.  A thread   *)
(* with a pending cancellation request may terminate at a cancellation     *)
(* point (sem_wait, sleep, usleep); when the call can also return, either  *)
(* outcome is possible.  pthread_mutex_lock is no cancellation point, and  *)
(* no cleanup handler releases the mutex.  print_status returns before     *)
(* printf once elapsed > PROGRAM_RUNTIME, which is the case whenever a     *)
(* request is pending, so the print steps are no cancellation points.      *)
(***************************************************************************)
EXTENDS Integers, FiniteSets

\* Number of seats, and of cars, that the model is checked for.
CapacityBound == 3

\* #define FERRY_CAPACITY (5 in the source; every use below is relative to it)
FERRY_CAPACITY == CapacityBound

Cars == 1..FERRY_CAPACITY

\* thread index of the ferry in cancelReq
Ferry == 0

VARIABLES
    mainpc,         \* main's position
    mi,             \* main's loop index i (lines 193, 219)
    ferrypc,        \* ferry_thread's position
    fi,             \* ferry_thread's loop index i (lines 78, 96)
    carpc,          \* car_thread's position, per car_id
    cancelReq,      \* pending pthread_cancel request, per thread
    sem_board, sem_full, sem_unboard, sem_empty,   \* semaphore values
    mutex,          \* car_count_mutex: 0 free, else the car_id holding it
    cars_on_board,  \* the shared counter
    expired,        \* get_relative_time_sec() >= PROGRAM_RUNTIME
    late,           \* get_relative_time_sec() > PROGRAM_RUNTIME
    failed,         \* the primitives whose creation failed in main
    faults,         \* calls on such a primitive made so far
    \* history variables (observers only; no action's guard reads them)
    fullPosts,      \* sem_post(sem_full) calls in the current ferry cycle
    emptyPosts,     \* sem_post(sem_empty) calls in the current ferry cycle
    filler,         \* car whose increment made cars_on_board = FERRY_CAPACITY (0: none)
    fullPoster,     \* car that posted sem_full in this cycle (0: none)
    emptier,        \* car whose decrement made cars_on_board = 0 (0: none)
    emptyPoster,    \* car that posted sem_empty in this cycle (0: none)
    incs, decs,     \* increments / decrements in the current ferry cycle
    cycleDone,      \* the ferry consumed sem_empty and has not reopened boarding
    boardTaken,     \* board permits consumed since the counter last returned to 0
    unboardTaken,   \* unboard permits consumed since the counter last returned to 0
    owes,           \* per car: the counter update its last consumed permit still owes
    checkedLive,    \* the ferry's last top-of-cycle stop check read "not expired"
    latePosts,      \* sem_post(sem_board) calls made after the deadline
    nthTaker,       \* car that consumed the FERRY_CAPACITY-th board permit of the phase,
                    \* until sem_full is posted (0: none)
    boards,         \* per car: its increments in the current ferry cycle
    \* the messages printed in the current ferry cycle, until line 53 suppresses them
    entered,        \* cars whose "entered the ferry" was printed in the current cycle
    left,           \* cars whose "left the ferry" was printed in the current cycle
    departed,       \* "leaves the dock" was printed in the current cycle
    arrived,        \* "arrives to new dock" (line 94) was printed in the current cycle
    prevLeft        \* the value of left when the current cycle began (Cars when
                    \* no cycle came before)

prog == <<mainpc, mi, ferrypc, fi, carpc, cancelReq, sem_board, sem_full,
          sem_unboard, sem_empty, mutex, cars_on_board, expired, late,
          failed, faults>>
hist == <<fullPosts, emptyPosts, filler, fullPoster, emptier, emptyPoster,
          incs, decs, cycleDone, boardTaken, unboardTaken, owes,
          checkedLive, latePosts, nthTaker, boards, entered, left, departed,
          arrived, prevLeft>>
vars == <<prog, hist>>

mainVars == <<mainpc, mi, cancelReq>>
envVars == <<expired, late, failed, faults>>
ferryVars == <<ferrypc, fi>>
semVars == <<sem_board, sem_full, sem_unboard, sem_empty>>
fullHist == <<fullPosts, filler, fullPoster>>
emptyHist == <<emptyPosts, emptier, emptyPoster>>
cycleHist == <<incs, decs, cycleDone>>
permitHist == <<boardTaken, unboardTaken, owes>>
stopHist == <<checkedLive, latePosts>>
seatHist == <<nthTaker, boards>>
evHist == <<entered, left, departed, arrived, prevLeft>>

Terminated == {"done", "cancelled"}

\* car_count_mutex and the four named semaphores
Primitives == {"mutex", "sem_board", "sem_full", "sem_unboard", "sem_empty"}

\* get_relative_time_sec() >= PROGRAM_RUNTIME
TimeUp ==
    expired

\* line 53: current_time > PROGRAM_RUNTIME, print_status prints nothing
Suppressed ==
    late

\* line 133 with > for ==
IsFullNever(n) ==
    n > FERRY_CAPACITY

\* line 133 compared against FERRY_CAPACITY - 1
IsFullOffByOne(n) ==
    n = FERRY_CAPACITY - 1

\* line 133: cars_on_board == FERRY_CAPACITY
IsFull(n) ==
    n = FERRY_CAPACITY

\* line 151: cars_on_board == 0
IsEmpty(n) ==
    n = 0

\* line 78 with <= for <
BoardLoopInclusive(i) ==
    i <= FERRY_CAPACITY

\* line 78: i < FERRY_CAPACITY
BoardLoop(i) ==
    i < FERRY_CAPACITY

\* line 96 with <= for <
UnboardLoopInclusive(i) ==
    i <= FERRY_CAPACITY

\* line 96: i < FERRY_CAPACITY
UnboardLoop(i) ==
    i < FERRY_CAPACITY

\* the state at the entry of main, `f` being the primitives whose creation
\* in lines 171-183 is going to fail
Boot(f) ==
    /\ mainpc = "setup"
    /\ mi = 0
    /\ ferrypc = "none"
    /\ fi = 0
    /\ carpc = [c \in Cars |-> "none"]
    /\ cancelReq = [t \in {Ferry} \cup Cars |-> FALSE]
    /\ sem_board = 0
    /\ sem_full = 0
    /\ sem_unboard = 0
    /\ sem_empty = 0
    /\ mutex = 0
    /\ cars_on_board = 0
    /\ expired = FALSE
    /\ late = FALSE
    /\ failed = f
    /\ faults = 0
    /\ fullPosts = 0
    /\ emptyPosts = 0
    /\ filler = 0
    /\ fullPoster = 0
    /\ emptier = 0
    /\ emptyPoster = 0
    /\ incs = 0
    /\ decs = 0
    /\ cycleDone = FALSE
    /\ boardTaken = 0
    /\ unboardTaken = 0
    /\ owes = [c \in Cars |-> "none"]
    /\ checkedLive = FALSE
    /\ latePosts = 0
    /\ nthTaker = 0
    /\ boards = [c \in Cars |-> 0]
    /\ entered = {}
    /\ left = {}
    /\ departed = FALSE
    /\ arrived = FALSE
    /\ prevLeft = Cars

\* every primitive is created
Init ==
    Boot({})

-----------------------------------------------------------------------------
\* main

\* lines 168-185: mutex and the four semaphores created with value 0; of the
\* five results only sem_board is compared with SEM_FAILED
MainSetup ==
    /\ mainpc = "setup"
    /\ mainpc' = IF "sem_board" \in failed THEN "exit_failure" ELSE "create_ferry"
    /\ UNCHANGED <<mi, cancelReq, ferryVars, carpc, semVars, mutex,
                   cars_on_board, envVars, hist>>

\* line 188
MainCreateFerry ==
    /\ mainpc = "create_ferry"
    /\ ferrypc' = "start"
    /\ mainpc' = "create_car"
    /\ mi' = 0
    /\ UNCHANGED <<cancelReq, fi, carpc, semVars, mutex, cars_on_board,
                   envVars, hist>>

\* lines 193-203: car_id = i + 1
MainCreateCar ==
    /\ mainpc = "create_car"
    /\ IF mi < FERRY_CAPACITY
       THEN /\ carpc' = [carpc EXCEPT ![mi + 1] = "check"]
            /\ mi' = mi + 1
            /\ mainpc' = mainpc
       ELSE /\ mainpc' = "sleep"
            /\ UNCHANGED <<carpc, mi>>
    /\ UNCHANGED <<cancelReq, ferryVars, semVars, mutex, cars_on_board,
                   envVars, hist>>

\* The run duration elapses.  main is in sleep(PROGRAM_RUNTIME) by then: the
\* five creation delays of line 194 are below one second each.
DeadlinePasses ==
    /\ mainpc = "sleep"
    /\ ~expired
    /\ expired' = TRUE
    /\ UNCHANGED <<mainVars, ferryVars, carpc, semVars, mutex, cars_on_board,
                   late, failed, faults, hist>>

\* The clock moves past the instant at which the elapsed time equals
\* PROGRAM_RUNTIME: from then on line 53 suppresses every message, so the
\* record of the printed messages is closed (and dropped).
DeadlineExceeded ==
    /\ mainpc = "sleep"
    /\ expired
    /\ ~late
    /\ late' = TRUE
    /\ entered' = {}
    /\ left' = {}
    /\ departed' = FALSE
    /\ arrived' = FALSE
    /\ prevLeft' = Cars
    /\ UNCHANGED <<mainVars, ferryVars, carpc, semVars, mutex, cars_on_board,
                   expired, failed, faults, fullHist, emptyHist, cycleHist,
                   permitHist, stopHist, seatHist>>

\* line 208: sleep(PROGRAM_RUNTIME) began after start_time was taken, and
\* after the creation delays of line 194, so it ends past the deadline
MainWake ==
    /\ mainpc = "sleep"
    /\ late
    /\ mainpc' = "cancel_ferry"
    /\ UNCHANGED <<mi, cancelReq, ferryVars, carpc, semVars, mutex,
                   cars_on_board, envVars, hist>>

\* line 215 left out
MainCancelFerryForgotten ==
    /\ mainpc = "cancel_ferry"
    /\ mainpc' = "join_ferry"
    /\ UNCHANGED <<mi, cancelReq, ferryVars, carpc, semVars, mutex,
                   cars_on_board, envVars, hist>>

\* line 215
MainCancelFerry ==
    /\ mainpc = "cancel_ferry"
    /\ cancelReq' = [cancelReq EXCEPT ![Ferry] = TRUE]
    /\ mainpc' = "join_ferry"
    /\ UNCHANGED <<mi, ferryVars, carpc, semVars, mutex, cars_on_board,
                   envVars, hist>>

\* line 216
MainJoinFerry ==
    /\ mainpc = "join_ferry"
    /\ ferrypc \in Terminated
    /\ mainpc' = "cancel_car"
    /\ mi' = 0
    /\ UNCHANGED <<cancelReq, ferryVars, carpc, semVars, mutex, cars_on_board,
                   envVars, hist>>

\* lines 219-220
MainCancelCar ==
    /\ mainpc = "cancel_car"
    /\ IF mi < FERRY_CAPACITY
       THEN /\ cancelReq' = [cancelReq EXCEPT ![mi + 1] = TRUE]
            /\ mainpc' = "join_car"
       ELSE /\ mainpc' = "cleanup"
            /\ UNCHANGED cancelReq
    /\ UNCHANGED <<mi, ferryVars, carpc, semVars, mutex, cars_on_board,
                   envVars, hist>>

\* line 221 returning without waiting for the thread
MainJoinCarNoWait ==
    /\ mainpc = "join_car"
    /\ mi' = mi + 1
    /\ mainpc' = "cancel_car"
    /\ UNCHANGED <<cancelReq, ferryVars, carpc, semVars, mutex, cars_on_board,
                   envVars, hist>>

\* line 221
MainJoinCar ==
    /\ mainpc = "join_car"
    /\ carpc[mi + 1] \in Terminated
    /\ mi' = mi + 1
    /\ mainpc' = "cancel_car"
    /\ UNCHANGED <<cancelReq, ferryVars, carpc, semVars, mutex, cars_on_board,
                   envVars, hist>>

\* lines 226-232
MainCleanup ==
    /\ mainpc = "cleanup"
    /\ mainpc' = "done"
    /\ UNCHANGED <<mi, cancelReq, ferryVars, carpc, semVars, mutex,
                   cars_on_board, envVars, hist>>

-----------------------------------------------------------------------------
\* ferry_thread

\* line 70
FerryStart ==
    /\ ferrypc = "start"
    /\ ferrypc' = "check1"
    /\ UNCHANGED <<mainVars, fi, carpc, semVars, mutex, cars_on_board,
                   envVars, hist>>

\* line 74 with the stop check left out
FerryCheck1NoStop ==
    /\ ferrypc = "check1"
    /\ checkedLive' = ~TimeUp
    /\ ferrypc' = "post_board"
    /\ fi' = 0
    /\ UNCHANGED <<mainVars, carpc, semVars, mutex, cars_on_board, envVars,
                   fullHist, emptyHist, cycleHist, permitHist, latePosts,
                   seatHist, evHist>>

\* line 74
FerryCheck1 ==
    /\ ferrypc = "check1"
    /\ checkedLive' = ~TimeUp
    /\ IF TimeUp
       THEN /\ ferrypc' = "done"
            /\ UNCHANGED fi
       ELSE /\ ferrypc' = "post_board"
            /\ fi' = 0
    /\ UNCHANGED <<mainVars, carpc, semVars, mutex, cars_on_board, envVars,
                   fullHist, emptyHist, cycleHist, permitHist, latePosts,
                   seatHist, evHist>>

\* lines 78-80: one sem_post(sem_board) per step; the first one opens a cycle
FerryPostBoard ==
    /\ ferrypc = "post_board"
    /\ IF BoardLoop(fi)
       THEN /\ sem_board' = sem_board + 1
            /\ fi' = fi + 1
            /\ ferrypc' = ferrypc
            /\ latePosts' = IF expired THEN latePosts + 1 ELSE latePosts
            /\ IF fi = 0
               THEN /\ fullPosts' = 0
                    /\ emptyPosts' = 0
                    /\ filler' = 0
                    /\ fullPoster' = 0
                    /\ emptier' = 0
                    /\ emptyPoster' = 0
                    /\ incs' = 0
                    /\ decs' = 0
                    /\ cycleDone' = FALSE
                    /\ nthTaker' = 0
                    /\ boards' = [c \in Cars |-> 0]
                    /\ entered' = {}
                    /\ left' = {}
                    /\ departed' = FALSE
                    /\ arrived' = FALSE
                    /\ prevLeft' = IF cycleDone THEN left ELSE Cars
               ELSE UNCHANGED <<fullHist, emptyHist, cycleHist, seatHist,
                                evHist>>
       ELSE /\ ferrypc' = "await_full"
            /\ UNCHANGED <<sem_board, fi, latePosts, fullHist, emptyHist,
                           cycleHist, seatHist, evHist>>
    /\ UNCHANGED <<mainVars, carpc, sem_full, sem_unboard, sem_empty, mutex,
                   cars_on_board, envVars, permitHist, checkedLive>>

\* line 83
FerryAwaitFull ==
    /\ ferrypc = "await_full"
    /\ sem_full > 0
    /\ sem_full' = sem_full - 1
    /\ ferrypc' = "check2"
    /\ UNCHANGED <<mainVars, fi, carpc, sem_board, sem_unboard, sem_empty,
                   mutex, cars_on_board, envVars, hist>>

\* line 86 with the stop check left out
FerryCheck2NoStop ==
    /\ ferrypc = "check2"
    /\ ferrypc' = "depart"
    /\ UNCHANGED <<mainVars, fi, carpc, semVars, mutex, cars_on_board,
                   envVars, hist>>

\* line 86
FerryCheck2 ==
    /\ ferrypc = "check2"
    /\ ferrypc' = IF TimeUp THEN "done" ELSE "depart"
    /\ UNCHANGED <<mainVars, fi, carpc, semVars, mutex, cars_on_board,
                   envVars, hist>>

\* line 90
FerryDepart ==
    /\ ferrypc = "depart"
    /\ ferrypc' = "crossing"
    /\ departed' = IF Suppressed THEN departed ELSE TRUE
    /\ UNCHANGED <<mainVars, fi, carpc, semVars, mutex, cars_on_board,
                   envVars, fullHist, emptyHist, cycleHist,
                   permitHist, stopHist, seatHist, entered, left,
                   arrived, prevLeft>>

\* line 91
FerryCross ==
    /\ ferrypc = "crossing"
    /\ ferrypc' = "arrive"
    /\ UNCHANGED <<mainVars, fi, carpc, semVars, mutex, cars_on_board,
                   envVars, hist>>

\* line 94
FerryArrive ==
    /\ ferrypc = "arrive"
    /\ ferrypc' = "post_unboard"
    /\ fi' = 0
    /\ arrived' = IF Suppressed THEN arrived ELSE TRUE
    /\ UNCHANGED <<mainVars, carpc, semVars, mutex, cars_on_board, envVars,
                   fullHist, emptyHist, cycleHist,
                   permitHist, stopHist, seatHist, entered, left,
                   departed, prevLeft>>

\* lines 96-98: one sem_post(sem_unboard) per step
FerryPostUnboard ==
    /\ ferrypc = "post_unboard"
    /\ IF UnboardLoop(fi)
       THEN /\ sem_unboard' = sem_unboard + 1
            /\ fi' = fi + 1
            /\ ferrypc' = ferrypc
       ELSE /\ ferrypc' = "await_empty"
            /\ UNCHANGED <<sem_unboard, fi>>
    /\ UNCHANGED <<mainVars, carpc, sem_board, sem_full, sem_empty, mutex,
                   cars_on_board, envVars, hist>>

\* line 101 left out: the ferry goes back to the top of the loop at once
FerryAwaitEmptySkipped ==
    /\ ferrypc = "await_empty"
    /\ ferrypc' = "check1"
    /\ cycleDone' = TRUE
    /\ UNCHANGED <<mainVars, fi, carpc, semVars,
                   mutex, cars_on_board, envVars, fullHist, emptyHist, incs,
                   decs, permitHist, stopHist,
                   seatHist, evHist>>

\* line 101, then back to the top of the loop
FerryAwaitEmpty ==
    /\ ferrypc = "await_empty"
    /\ sem_empty > 0
    /\ sem_empty' = sem_empty - 1
    /\ ferrypc' = "check1"
    /\ cycleDone' = TRUE
    /\ UNCHANGED <<mainVars, fi, carpc, sem_board, sem_full, sem_unboard,
                   mutex, cars_on_board, envVars, fullHist, emptyHist, incs,
                   decs, permitHist, stopHist,
                   seatHist, evHist>>

\* the cancellation points of ferry_thread: lines 83, 91, 101
FerryCancelPoints ==
    {"await_full", "crossing", "await_empty"}

\* a pending request of line 215 acted upon
FerryCancelled ==
    /\ cancelReq[Ferry]
    /\ ferrypc \in FerryCancelPoints
    /\ ferrypc' = "cancelled"
    /\ UNCHANGED <<mainVars, fi, carpc, semVars, mutex, cars_on_board,
                   envVars, hist>>

FerryStep ==
    \/ FerryStart
    \/ FerryCheck1
    \/ FerryPostBoard
    \/ FerryAwaitFull
    \/ FerryCheck2
    \/ FerryDepart
    \/ FerryCross
    \/ FerryArrive
    \/ FerryPostUnboard
    \/ FerryAwaitEmpty
    \/ FerryCancelled

-----------------------------------------------------------------------------
\* car_thread, for car_id c

\* line 116
CarCheck(c) ==
    /\ carpc[c] = "check"
    /\ carpc' = [carpc EXCEPT ![c] = IF TimeUp THEN "done" ELSE "wait_board"]
    /\ UNCHANGED <<mainVars, ferryVars, semVars, mutex, cars_on_board,
                   envVars, hist>>

\* line 120
CarWaitBoard(c) ==
    /\ carpc[c] = "wait_board"
    /\ sem_board > 0
    /\ sem_board' = sem_board - 1
    /\ carpc' = [carpc EXCEPT ![c] = "lock_b"]
    /\ boardTaken' = boardTaken + 1
    /\ owes' = [owes EXCEPT ![c] = "inc"]
    /\ nthTaker' = IF boardTaken + 1 = FERRY_CAPACITY THEN c ELSE nthTaker
    /\ UNCHANGED <<mainVars, ferryVars, sem_full, sem_unboard, sem_empty,
                   mutex, cars_on_board, envVars, fullHist, emptyHist,
                   cycleHist, unboardTaken, stopHist,
                   boards, evHist>>

\* line 123
CarLockB(c) ==
    /\ carpc[c] = "lock_b"
    /\ mutex = 0
    /\ mutex' = c
    /\ carpc' = [carpc EXCEPT ![c] = "sleep_b"]
    /\ UNCHANGED <<mainVars, ferryVars, semVars, cars_on_board, envVars,
                   hist>>

\* line 127, the pause inside the mutex region
CarSleepB(c) ==
    /\ carpc[c] = "sleep_b"
    /\ carpc' = [carpc EXCEPT ![c] = "inc"]
    /\ UNCHANGED <<mainVars, ferryVars, semVars, mutex, cars_on_board,
                   envVars, hist>>

\* line 129 written as a decrement
CarIncAsDec(c) ==
    /\ carpc[c] = "inc"
    /\ cars_on_board' = cars_on_board - 1
    /\ carpc' = [carpc EXCEPT ![c] = "print_in"]
    /\ incs' = incs + 1
    /\ boards' = [boards EXCEPT ![c] = @ + 1]
    /\ owes' = [owes EXCEPT ![c] = "none"]
    /\ filler' = IF cars_on_board - 1 = FERRY_CAPACITY THEN c ELSE filler
    /\ UNCHANGED <<mainVars, ferryVars, semVars, mutex, envVars, fullPosts,
                   fullPoster, emptyHist, decs, cycleDone, boardTaken,
                   unboardTaken, stopHist,
                   nthTaker, evHist>>

\* line 129 with the mutex released before the check of line 133
CarIncThenUnlock(c) ==
    /\ carpc[c] = "inc"
    /\ cars_on_board' = cars_on_board + 1
    /\ mutex' = 0
    /\ carpc' = [carpc EXCEPT ![c] = "print_in"]
    /\ incs' = incs + 1
    /\ boards' = [boards EXCEPT ![c] = @ + 1]
    /\ owes' = [owes EXCEPT ![c] = "none"]
    /\ filler' = IF cars_on_board + 1 = FERRY_CAPACITY THEN c ELSE filler
    /\ UNCHANGED <<mainVars, ferryVars, semVars, envVars, fullPosts,
                   fullPoster, emptyHist, decs, cycleDone, boardTaken,
                   unboardTaken, stopHist,
                   nthTaker, evHist>>

\* line 129
CarInc(c) ==
    /\ carpc[c] = "inc"
    /\ cars_on_board' = cars_on_board + 1
    /\ carpc' = [carpc EXCEPT ![c] = "print_in"]
    /\ incs' = incs + 1
    /\ boards' = [boards EXCEPT ![c] = @ + 1]
    /\ owes' = [owes EXCEPT ![c] = "none"]
    /\ filler' = IF cars_on_board + 1 = FERRY_CAPACITY THEN c ELSE filler
    /\ UNCHANGED <<mainVars, ferryVars, semVars, mutex, envVars, fullPosts,
                   fullPoster, emptyHist, decs, cycleDone, boardTaken,
                   unboardTaken, stopHist,
                   nthTaker, evHist>>

\* line 130
CarPrintIn(c) ==
    /\ carpc[c] = "print_in"
    /\ carpc' = [carpc EXCEPT ![c] = "test_full"]
    /\ entered' = IF Suppressed THEN entered ELSE entered \cup {c}
    /\ UNCHANGED <<mainVars, ferryVars, semVars, mutex, cars_on_board,
                   envVars, fullHist, emptyHist, cycleHist,
                   permitHist, stopHist, seatHist, left, departed,
                   arrived, prevLeft>>

\* lines 133-135 with the post made whatever the counter reads
CarTestFullUnchecked(c) ==
    /\ carpc[c] = "test_full"
    /\ sem_full' = sem_full + 1
    /\ fullPosts' = fullPosts + 1
    /\ fullPoster' = c
    /\ nthTaker' = 0
    /\ carpc' = [carpc EXCEPT ![c] = "unlock_b"]
    /\ UNCHANGED <<mainVars, ferryVars, sem_board, sem_unboard, sem_empty,
                   mutex, cars_on_board, envVars, filler, emptyHist,
                   cycleHist, permitHist, stopHist,
                   boards, evHist>>

\* lines 133-135
CarTestFull(c) ==
    /\ carpc[c] = "test_full"
    /\ IF IsFull(cars_on_board)
       THEN /\ sem_full' = sem_full + 1
            /\ fullPosts' = fullPosts + 1
            /\ fullPoster' = c
            /\ nthTaker' = 0
       ELSE UNCHANGED <<sem_full, fullPosts, fullPoster, nthTaker>>
    /\ carpc' = [carpc EXCEPT ![c] = "unlock_b"]
    /\ UNCHANGED <<mainVars, ferryVars, sem_board, sem_unboard, sem_empty,
                   mutex, cars_on_board, envVars, filler, emptyHist,
                   cycleHist, permitHist, stopHist,
                   boards, evHist>>

\* line 136
CarUnlockB(c) ==
    /\ carpc[c] = "unlock_b"
    /\ mutex' = 0
    /\ carpc' = [carpc EXCEPT ![c] = "wait_unboard"]
    /\ UNCHANGED <<mainVars, ferryVars, semVars, cars_on_board, envVars,
                   hist>>

\* line 140 left out: the car goes on without an unboard permit
CarWaitUnboardSkipped(c) ==
    /\ carpc[c] = "wait_unboard"
    /\ carpc' = [carpc EXCEPT ![c] = "sleep_u"]
    /\ unboardTaken' = unboardTaken + 1
    /\ owes' = [owes EXCEPT ![c] = "dec"]
    /\ UNCHANGED <<mainVars, ferryVars, semVars,
                   mutex, cars_on_board, envVars, fullHist, emptyHist,
                   cycleHist, boardTaken, stopHist,
                   seatHist, evHist>>

\* line 140
CarWaitUnboard(c) ==
    /\ carpc[c] = "wait_unboard"
    /\ sem_unboard > 0
    /\ sem_unboard' = sem_unboard - 1
    /\ carpc' = [carpc EXCEPT ![c] = "sleep_u"]
    /\ unboardTaken' = unboardTaken + 1
    /\ owes' = [owes EXCEPT ![c] = "dec"]
    /\ UNCHANGED <<mainVars, ferryVars, sem_board, sem_full, sem_empty,
                   mutex, cars_on_board, envVars, fullHist, emptyHist,
                   cycleHist, boardTaken, stopHist,
                   seatHist, evHist>>

\* line 143
CarSleepU(c) ==
    /\ carpc[c] = "sleep_u"
    /\ carpc' = [carpc EXCEPT ![c] = "print_out"]
    /\ UNCHANGED <<mainVars, ferryVars, semVars, mutex, cars_on_board,
                   envVars, hist>>

\* line 144
CarPrintOut(c) ==
    /\ carpc[c] = "print_out"
    /\ carpc' = [carpc EXCEPT ![c] = "lock_u"]
    /\ left' = IF Suppressed THEN left ELSE left \cup {c}
    /\ UNCHANGED <<mainVars, ferryVars, semVars, mutex, cars_on_board,
                   envVars, fullHist, emptyHist, cycleHist,
                   permitHist, stopHist, seatHist, entered,
                   departed, arrived, prevLeft>>

\* line 147
CarLockU(c) ==
    /\ carpc[c] = "lock_u"
    /\ mutex = 0
    /\ mutex' = c
    /\ carpc' = [carpc EXCEPT ![c] = "dec"]
    /\ UNCHANGED <<mainVars, ferryVars, semVars, cars_on_board, envVars,
                   hist>>

\* line 148 left out
CarDecForgotten(c) ==
    /\ carpc[c] = "dec"
    /\ cars_on_board' = cars_on_board
    /\ carpc' = [carpc EXCEPT ![c] = "test_empty"]
    /\ decs' = decs + 1
    /\ owes' = [owes EXCEPT ![c] = "none"]
    /\ emptier' = IF cars_on_board = 0 THEN c ELSE emptier
    /\ boardTaken' = IF cars_on_board = 0 THEN 0 ELSE boardTaken
    /\ unboardTaken' = IF cars_on_board = 0 THEN 0 ELSE unboardTaken
    /\ UNCHANGED <<mainVars, ferryVars, semVars, mutex, envVars, fullHist,
                   emptyPosts, emptyPoster, incs, cycleDone, stopHist,
                   seatHist, evHist>>

\* line 148 with the mutex released before the check of line 151
CarDecThenUnlock(c) ==
    /\ carpc[c] = "dec"
    /\ cars_on_board' = cars_on_board - 1
    /\ mutex' = 0
    /\ carpc' = [carpc EXCEPT ![c] = "test_empty"]
    /\ decs' = decs + 1
    /\ owes' = [owes EXCEPT ![c] = "none"]
    /\ emptier' = IF cars_on_board - 1 = 0 THEN c ELSE emptier
    /\ boardTaken' = IF cars_on_board - 1 = 0 THEN 0 ELSE boardTaken
    /\ unboardTaken' = IF cars_on_board - 1 = 0 THEN 0 ELSE unboardTaken
    /\ UNCHANGED <<mainVars, ferryVars, semVars, envVars, fullHist,
                   emptyPosts, emptyPoster, incs, cycleDone, stopHist,
                   seatHist, evHist>>

\* line 148
CarDec(c) ==
    /\ carpc[c] = "dec"
    /\ cars_on_board' = cars_on_board - 1
    /\ carpc' = [carpc EXCEPT ![c] = "test_empty"]
    /\ decs' = decs + 1
    /\ owes' = [owes EXCEPT ![c] = "none"]
    /\ emptier' = IF cars_on_board - 1 = 0 THEN c ELSE emptier
    /\ boardTaken' = IF cars_on_board - 1 = 0 THEN 0 ELSE boardTaken
    /\ unboardTaken' = IF cars_on_board - 1 = 0 THEN 0 ELSE unboardTaken
    /\ UNCHANGED <<mainVars, ferryVars, semVars, mutex, envVars, fullHist,
                   emptyPosts, emptyPoster, incs, cycleDone, stopHist,
                   seatHist, evHist>>

\* lines 151-153
CarTestEmpty(c) ==
    /\ carpc[c] = "test_empty"
    /\ IF IsEmpty(cars_on_board)
       THEN /\ sem_empty' = sem_empty + 1
            /\ emptyPosts' = emptyPosts + 1
            /\ emptyPoster' = c
       ELSE UNCHANGED <<sem_empty, emptyPosts, emptyPoster>>
    /\ carpc' = [carpc EXCEPT ![c] = "unlock_u"]
    /\ UNCHANGED <<mainVars, ferryVars, sem_board, sem_full, sem_unboard,
                   mutex, cars_on_board, envVars, fullHist, emptier,
                   cycleHist, permitHist, stopHist,
                   seatHist, evHist>>

\* line 154
CarUnlockU(c) ==
    /\ carpc[c] = "unlock_u"
    /\ mutex' = 0
    /\ carpc' = [carpc EXCEPT ![c] = "idle"]
    /\ UNCHANGED <<mainVars, ferryVars, semVars, cars_on_board, envVars,
                   hist>>

\* line 159, then back to the top of the loop
CarIdle(c) ==
    /\ carpc[c] = "idle"
    /\ carpc' = [carpc EXCEPT ![c] = "check"]
    /\ UNCHANGED <<mainVars, ferryVars, semVars, mutex, cars_on_board,
                   envVars, hist>>

\* the cancellation points of car_thread: lines 120, 127, 140, 143, 159
CarCancelPoints ==
    {"wait_board", "sleep_b", "wait_unboard", "sleep_u", "idle"}

\* a pending request of line 220 acted upon; the mutex stays as it is
CarCancelled(c) ==
    /\ cancelReq[c]
    /\ carpc[c] \in CarCancelPoints
    /\ carpc' = [carpc EXCEPT ![c] = "cancelled"]
    /\ UNCHANGED <<mainVars, ferryVars, semVars, mutex, cars_on_board,
                   envVars, hist>>

CarStep(c) ==
    \/ CarCheck(c)
    \/ CarWaitBoard(c)
    \/ CarLockB(c)
    \/ CarSleepB(c)
    \/ CarInc(c)
    \/ CarPrintIn(c)
    \/ CarTestFull(c)
    \/ CarUnlockB(c)
    \/ CarWaitUnboard(c)
    \/ CarSleepU(c)
    \/ CarPrintOut(c)
    \/ CarLockU(c)
    \/ CarDec(c)
    \/ CarTestEmpty(c)
    \/ CarUnlockU(c)
    \/ CarIdle(c)
    \/ CarCancelled(c)

MainStep ==
    \/ MainSetup
    \/ MainCreateFerry
    \/ MainCreateCar
    \/ MainWake
    \/ MainCancelFerry
    \/ MainJoinFerry
    \/ MainCancelCar
    \/ MainJoinCar
    \/ MainCleanup

Next ==
    \/ MainStep
    \/ DeadlinePasses
    \/ DeadlineExceeded
    \/ FerryStep
    \/ \E c \in Cars : CarStep(c)

Spec ==
    Init /\ [][Next]_vars

\* Every thread that can take a step eventually takes one; the deadline
\* itself is under no obligation to arrive.
Fairness ==
    /\ WF_vars(MainStep)
    /\ WF_vars(FerryStep)
    /\ \A c \in Cars : WF_vars(CarStep(c))

FairSpec ==
    Spec /\ Fairness

\* The run before the deadline: the steps of the threads while
\* get_relative_time_sec() < PROGRAM_RUNTIME, main staying in sleep().
MainRunStep ==
    \/ MainSetup
    \/ MainCreateFerry
    \/ MainCreateCar

FerryRunStep ==
    \/ FerryStart
    \/ FerryCheck1
    \/ FerryPostBoard
    \/ FerryAwaitFull
    \/ FerryCheck2
    \/ FerryDepart
    \/ FerryCross
    \/ FerryArrive
    \/ FerryPostUnboard
    \/ FerryAwaitEmpty

CarRunStep(c) ==
    \/ CarCheck(c)
    \/ CarWaitBoard(c)
    \/ CarLockB(c)
    \/ CarSleepB(c)
    \/ CarInc(c)
    \/ CarPrintIn(c)
    \/ CarTestFull(c)
    \/ CarUnlockB(c)
    \/ CarWaitUnboard(c)
    \/ CarSleepU(c)
    \/ CarPrintOut(c)
    \/ CarLockU(c)
    \/ CarDec(c)
    \/ CarTestEmpty(c)
    \/ CarUnlockU(c)
    \/ CarIdle(c)

RunNext ==
    \/ MainRunStep
    \/ FerryRunStep
    \/ \E c \in Cars : CarRunStep(c)

RunSpec ==
    /\ Init
    /\ [][RunNext]_vars
    /\ WF_vars(MainRunStep)
    /\ WF_vars(FerryRunStep)
    /\ \A c \in Cars : WF_vars(CarRunStep(c))

-----------------------------------------------------------------------------
\* The run before the deadline when the creation of one primitive fails

\* at most one of pthread_mutex_init (line 171) and the four sem_open calls
\* (lines 180-183) fails
SetupInit ==
    \E f \in {{}} \cup {{p} : p \in Primitives} : Boot(f)

\* A run is followed up to its FaultBound-th call on a primitive that was
\* not created.
FaultBound == 1

\* the semaphore that the ferry's next statement operates on
FerryUse ==
    CASE ferrypc = "post_board" /\ BoardLoop(fi) -> "sem_board"
      [] ferrypc = "await_full" -> "sem_full"
      [] ferrypc = "post_unboard" /\ UnboardLoop(fi) -> "sem_unboard"
      [] ferrypc = "await_empty" -> "sem_empty"
      [] OTHER -> "none"

\* the semaphore that the next statement of car c operates on
CarUse(c) ==
    CASE carpc[c] = "wait_board" -> "sem_board"
      [] carpc[c] = "test_full" /\ IsFull(cars_on_board) -> "sem_full"
      [] carpc[c] = "wait_unboard" -> "sem_unboard"
      [] carpc[c] = "test_empty" /\ IsEmpty(cars_on_board) -> "sem_empty"
      [] OTHER -> "none"

\* lines 83, 97, 101 on a semaphore that is SEM_FAILED: the call returns -1
\* without blocking or posting, and the result is not looked at
FerryCallFails ==
    /\ FerryUse \in failed
    /\ faults < FaultBound
    /\ faults' = faults + 1
    /\ ferrypc' = CASE ferrypc = "await_full" -> "check2"
                     [] ferrypc = "await_empty" -> "check1"
                     [] OTHER -> ferrypc
    /\ fi' = IF ferrypc = "post_unboard" THEN fi + 1 ELSE fi
    /\ UNCHANGED <<mainVars, carpc, semVars, mutex, cars_on_board, expired,
                   late, failed, hist>>

\* lines 134, 140, 152 on a semaphore that is SEM_FAILED
CarCallFails(c) ==
    /\ CarUse(c) \in failed
    /\ faults < FaultBound
    /\ faults' = faults + 1
    /\ carpc' = [carpc EXCEPT ![c] =
                    CASE carpc[c] = "test_full" -> "unlock_b"
                      [] carpc[c] = "wait_unboard" -> "sleep_u"
                      [] carpc[c] = "test_empty" -> "unlock_u"
                      [] OTHER -> carpc[c]]
    /\ UNCHANGED <<mainVars, ferryVars, semVars, mutex, cars_on_board,
                   expired, late, failed, hist>>

\* lines 123, 136, 147, 154 on the mutex that line 171 failed to
\* initialise: the call returns EINVAL and changes nothing, so the counter
\* updates that follow are not serialised.  (Where the zero-filled object
\* is usable, the calls act as CarLockB .. CarUnlockU.)
CarMutexCallFails(c) ==
    /\ "mutex" \in failed
    /\ faults < FaultBound
    /\ faults' = faults + 1
    /\ carpc[c] \in {"lock_b", "unlock_b", "lock_u", "unlock_u"}
    /\ carpc' = [carpc EXCEPT ![c] =
                    CASE carpc[c] = "lock_b" -> "sleep_b"
                      [] carpc[c] = "unlock_b" -> "wait_unboard"
                      [] carpc[c] = "lock_u" -> "dec"
                      [] carpc[c] = "unlock_u" -> "idle"]
    /\ UNCHANGED <<mainVars, ferryVars, semVars, mutex, cars_on_board,
                   expired, late, failed, hist>>

\* sem_wait or sem_post on SEM_FAILED where SEM_FAILED is the null pointer:
\* the process is killed by the invalid access
ProcessKilled ==
    /\ faults < FaultBound
    /\ \/ FerryUse \in failed
       \/ \E c \in Cars : CarUse(c) \in failed
    /\ mainpc' = "killed"
    /\ ferrypc' = "killed"
    /\ carpc' = [c \in Cars |-> "killed"]
    /\ UNCHANGED <<mi, cancelReq, fi, semVars, mutex, cars_on_board, envVars,
                   hist>>

SetupNext ==
    \/ MainRunStep
    \/ faults < FaultBound /\ FerryUse \notin failed /\ FerryRunStep
    \/ \E c \in Cars :
          faults < FaultBound /\ CarUse(c) \notin failed /\ CarRunStep(c)
    \/ FerryCallFails
    \/ \E c \in Cars : CarCallFails(c)
    \/ \E c \in Cars : CarMutexCallFails(c)
    \/ ProcessKilled

SetupSpec ==
    SetupInit /\ [][SetupNext]_vars

-----------------------------------------------------------------------------
\* Properties

\* The ferry is between the return of sem_wait(sem_full) and its first
\* sem_post(sem_unboard).
FerryLoaded ==
    \/ ferrypc \in {"check2", "depart", "crossing", "arrive"}
    \/ ferrypc = "post_unboard" /\ fi = 0

\* C1: in every reachable state, shutdown and cancellation included,
\* 0 <= cars_on_board <= FERRY_CAPACITY.
CapacityInvariant ==
    cars_on_board \in 0..FERRY_CAPACITY

\* C1 witness: the counter is at its upper limit while a car has been cancelled.
CapacityWitness ==
    /\ cars_on_board = FERRY_CAPACITY
    /\ \E c \in Cars : carpc[c] = "cancelled"

\* C2: from the return of the ferry's wait on sem_full, through the crossing,
\* up to its first post of sem_unboard, cars_on_board equals FERRY_CAPACITY.
NoPrematureDeparture ==
    FerryLoaded => cars_on_board = FERRY_CAPACITY

\* C2 witness: the ferry is crossing.
CrossingWitness ==
    ferrypc = "crossing" /\ cars_on_board = FERRY_CAPACITY

\* C3: in a ferry cycle sem_full is posted at most once, and exactly once
\* once the car whose increment made cars_on_board equal FERRY_CAPACITY has
\* passed its check; that car is the poster; sem_full never exceeds 1, and a
\* posting is outstanding only while the ferry of that cycle has yet to
\* consume it (or was cancelled waiting), so none is left for a later cycle.
SingleFullTrigger ==
    /\ sem_full <= 1
    /\ fullPosts <= 1
    /\ fullPosts = 1 => (filler # 0 /\ fullPoster = filler)
    /\ fullPosts = 0 => fullPoster = 0
    /\ (filler # 0 /\ carpc[filler] \notin {"print_in", "test_full"})
          => fullPosts = 1
    /\ (FerryLoaded \/ ferrypc \in {"post_unboard", "await_empty"} \/ cycleDone)
          => (fullPosts = 1 /\ sem_full = 0)
    /\ sem_full > 0 =>
          \/ ferrypc = "post_board" /\ fi = FERRY_CAPACITY
          \/ ferrypc \in {"await_full", "cancelled"}

\* C3 witness: the one posting of a cycle has been made by the filling car
\* and is not yet consumed, after another car boarded in the same cycle.
FullTriggerWitness ==
    /\ fullPosts = 1
    /\ sem_full = 1
    /\ fullPoster = filler
    /\ \E c \in Cars : c # filler /\ carpc[c] = "wait_unboard"

\* C4: in a ferry cycle sem_empty is posted at most once, and exactly once
\* once the car whose decrement made cars_on_board equal 0 has passed its
\* check; that car is the poster; a cycle the ferry completes has exactly one
\* posting; sem_empty never exceeds 1.
SingleEmptyTrigger ==
    /\ sem_empty <= 1
    /\ emptyPosts <= 1
    /\ emptyPosts = 1 => (emptier # 0 /\ emptyPoster = emptier)
    /\ emptyPosts = 0 => emptyPoster = 0
    /\ (emptier # 0 /\ carpc[emptier] # "test_empty") => emptyPosts = 1
    /\ cycleDone => (emptyPosts = 1 /\ sem_empty = 0)
    /\ sem_empty > 0 =>
          \/ ferrypc = "post_unboard" /\ fi = FERRY_CAPACITY
          \/ ferrypc \in {"await_empty", "cancelled"}

\* C4 witness: the one posting of a cycle has been made by the emptying car
\* and is not yet consumed, after another car unboarded in the same cycle.
EmptyTriggerWitness ==
    /\ emptyPosts = 1
    /\ sem_empty = 1
    /\ emptyPoster = emptier
    /\ \E c \in Cars : c # emptier /\ carpc[c] \in {"idle", "check", "wait_board"}

\* In this cycle the counter has reached FERRY_CAPACITY, and the ferry has
\* not yet released a board permit of the next cycle.
ReachedFull ==
    filler # 0

\* C5: once cars_on_board has reached FERRY_CAPACITY in a cycle, no board
\* permit is available, no car is between the wait on sem_board and its
\* increment, and no car passes that wait or increments the counter, until
\* the ferry releases sem_board again for the next cycle (which it does only
\* after the counter returned to 0 and it consumed sem_empty).
NoBoardingOnceFull ==
    /\ [](ReachedFull =>
            /\ sem_board = 0
            /\ \A c \in Cars : carpc[c] \notin {"lock_b", "sleep_b", "inc"})
    /\ [][ReachedFull =>
            /\ cars_on_board' <= cars_on_board
            /\ \A c \in Cars : carpc[c] = "wait_board" => carpc'[c] # "lock_b"
            /\ (sem_board' > sem_board =>
                   cars_on_board = 0 /\ cycleDone /\ sem_empty = 0)]_vars

\* C5 witness: a car is back at the wait on sem_board while the ferry is
\* still unloading the full load.
BoardingClosedWitness ==
    /\ ReachedFull
    /\ cars_on_board > 0
    /\ \E c \in Cars : carpc[c] = "wait_board"

\* C6 (as claimed): once main has begun the shutdown of lines 215-222, it is
\* never stuck: as long as main has not reached the end of main, some thread
\* can take a step.  After the deadline every loop exits at its stop check,
\* so the shutdown reaches the end of main exactly if this holds.
ShutdownTerminates ==
    mainpc \in {"cancel_ferry", "join_ferry", "cancel_car", "join_car", "cleanup"}
        => ENABLED Next

\* C6 (as claimed), as a property of the fair behaviours: the shutdown that
\* main begins at line 215 reaches the end of main.
ShutdownEventuallyExits ==
    (mainpc = "cancel_ferry") ~> (mainpc = "done")

\* C7 (as claimed): at every instant cars_on_board equals the board permits
\* consumed minus the unboard permits consumed since the counter last
\* returned to 0.
CountTracksPermits ==
    cars_on_board = boardTaken - unboardTaken

\* cars that consumed a permit and have not made the counter update it owes
Owing(kind) ==
    Cardinality({c \in Cars : owes[c] = kind})

\* C7 (amended): cars_on_board equals the board permits consumed and
\* followed by their increment, minus the unboard permits consumed and
\* followed by their decrement, since the counter last returned to 0.
CountTracksUpdates ==
    cars_on_board =
        (boardTaken - Owing("inc")) - (unboardTaken - Owing("dec"))

\* C7 witness: one car has unboarded and been counted, another holds an
\* unboard permit whose decrement is still to come.
CountLagWitness ==
    /\ 0 < cars_on_board
    /\ cars_on_board < FERRY_CAPACITY
    /\ \E c \in Cars : owes[c] = "dec"

\* C8: when the ferry has completed a cycle, the cycle saw exactly
\* FERRY_CAPACITY increments and FERRY_CAPACITY decrements, every permit it
\* posted was consumed and followed by its counter update, and a cycle
\* starts with no permit of either kind outstanding.
RoundTripConservation ==
    /\ incs <= FERRY_CAPACITY
    /\ decs <= incs
    /\ cycleDone =>
          /\ incs = FERRY_CAPACITY
          /\ decs = FERRY_CAPACITY
          /\ cars_on_board = 0
          /\ sem_board = 0
          /\ sem_unboard = 0
          /\ \A c \in Cars : owes[c] = "none"
    /\ (ferrypc = "post_board" /\ fi = 0) =>
          /\ cars_on_board = 0
          /\ sem_board = 0
          /\ sem_unboard = 0

\* C8 witness: a cycle has been completed and the ferry is about to release
\* the first board permit of the next one.
RoundTripWitness ==
    /\ cycleDone
    /\ ferrypc = "post_board"
    /\ fi = 0
    /\ decs = FERRY_CAPACITY

\* C9 (as claimed): the ferry never posts sem_board in a state where the run
\* duration has elapsed.
NoBoardPostAfterDeadline ==
    latePosts = 0

\* C9 (amended): every post of sem_board belongs to an iteration whose
\* top-of-cycle stop check read the deadline as not elapsed, so at most the
\* FERRY_CAPACITY posts of that one boarding phase fall after the deadline.
StopCheckGuardsBoarding ==
    /\ ferrypc = "post_board" => checkedLive
    /\ latePosts <= FERRY_CAPACITY

\* C9 witness: a board permit has been posted after the deadline.
LatePostWitness ==
    /\ latePosts > 0
    /\ expired
    /\ checkedLive

\* C10: under fair scheduling, and unless the deadline arrives, every
\* boarding phase the ferry opens is followed by the consumption of
\* sem_full, the crossing, an unboarding phase and the consumption of
\* sem_empty, and the ferry completes cycles again and again.
CycleRepeats ==
    /\ (ferrypc = "post_board") ~> (expired \/ ferrypc = "check2")
    /\ (ferrypc = "check2") ~> (expired \/ ferrypc = "crossing")
    /\ (ferrypc = "crossing") ~> (expired \/ ferrypc = "post_unboard")
    /\ (ferrypc = "post_unboard") ~> (expired \/ cycleDone)
    /\ []<>(expired \/ cycleDone)
    /\ []<>(expired \/ ~cycleDone)

\* C10 witness: before the deadline, the ferry opens a boarding phase after
\* a completed cycle.
CycleRepeatsWitness ==
    /\ ~expired
    /\ cycleDone
    /\ ferrypc = "post_board"

\* C11 (as claimed): when the creation of the mutex or of any of the four
\* semaphores has failed, main gets no further than the exit of line 185,
\* and neither the ferry thread nor any car thread is created.
SetupFailureIsFatal ==
    failed # {} =>
        /\ mainpc \in {"setup", "exit_failure"}
        /\ ferrypc = "none"
        /\ \A c \in Cars : carpc[c] = "none"

\* the mutex and the semaphores are being, or have been, destroyed (lines 226-230)
TearingDown ==
    mainpc \in {"cleanup", "done"}

\* C12: main destroys the mutex and closes/unlinks the semaphores only in
\* states where the ferry thread and every car thread has terminated, so no
\* thread is blocked on, or about to use, a destroyed primitive.
TeardownAfterAllTerminated ==
    TearingDown =>
        /\ ferrypc \in Terminated
        /\ \A c \in Cars : carpc[c] \in Terminated

\* C12 witness: main has destroyed the primitives after cancelling the
\* ferry and a car inside their waits.
TeardownWitness ==
    /\ mainpc = "done"
    /\ ferrypc = "cancelled"
    /\ \E c \in Cars : carpc[c] = "cancelled"

\* the positions at which a car is paused (usleep) or waits on a semaphore
CarPaused ==
    {"sleep_b", "sleep_u", "idle", "wait_board", "wait_unboard"}

\* C13 (as claimed): in no reachable state is the car that holds
\* car_count_mutex paused or blocked on a permit semaphore.
MutexRegionMinimal ==
    \A c \in Cars : mutex = c => carpc[c] \notin CarPaused

\* car c is at the check of line 133 and reads cars_on_board == FERRY_CAPACITY
ObservesFull(c) ==
    carpc[c] = "test_full" /\ IsFull(cars_on_board)

\* C14 (as claimed): the car that observes cars_on_board == FERRY_CAPACITY
\* after its increment, and posts sem_full, is the car that was the
\* FERRY_CAPACITY-th to pass the wait on sem_board in this boarding phase.
NthAcquirerTriggers ==
    \A c \in Cars : ObservesFull(c) => nthTaker = c

\* C14 (amended): the car that observes cars_on_board == FERRY_CAPACITY and
\* posts sem_full is the car that made the FERRY_CAPACITY-th increment of
\* the phase, after all FERRY_CAPACITY permits were consumed (the last of
\* them by some car, not necessarily this one); a car that is not the one
\* that made that increment observes a smaller value and posts nothing.
NthIncrementTriggers ==
    /\ \A c \in Cars : ObservesFull(c) =>
          /\ filler = c
          /\ incs = FERRY_CAPACITY
          /\ boardTaken = FERRY_CAPACITY
          /\ nthTaker # 0
    /\ \A c \in Cars :
          (carpc[c] = "test_full" /\ filler # c) => ~IsFull(cars_on_board)
    /\ nthTaker # 0 => (boardTaken = FERRY_CAPACITY /\ sem_board = 0)
    /\ fullPosts >= 1 => (fullPoster = filler /\ incs = FERRY_CAPACITY)

\* C14 witness: the car about to post sem_full is not the car that was the
\* last to pass the wait on sem_board.
OvertakenWitness ==
    \E c \in Cars : ObservesFull(c) /\ nthTaker \notin {0, c}

\* The ferry returned at line 86: it has stopped in a cycle whose sem_full
\* it consumed and which it did not complete.
StoppedAfterWait ==
    /\ ferrypc = "done"
    /\ fullPosts >= 1
    /\ ~cycleDone

\* C15: at the check that follows the return of sem_wait(sem_full), if the
\* run duration has elapsed the ferry's next step is its return; a ferry
\* that has returned stays so, posts neither sem_board nor sem_unboard and
\* prints no further event; and in the cycle it stopped in, no departure or
\* arrival was printed, no unboard permit was released and no car unboarded.
PostWaitStopCheck ==
    /\ [][(ferrypc = "check2" /\ TimeUp /\ ferrypc' # ferrypc)
             => ferrypc' = "done"]_vars
    /\ [][ferrypc = "done" =>
             /\ ferrypc' = "done"
             /\ sem_board' <= sem_board
             /\ sem_unboard' <= sem_unboard
             /\ departed' => departed
             /\ arrived' => arrived]_vars
    /\ [](StoppedAfterWait =>
             /\ ~departed
             /\ ~arrived
             /\ sem_unboard = 0
             /\ unboardTaken = 0
             /\ decs = 0
             /\ cars_on_board = FERRY_CAPACITY)

\* C15 witness: the ferry has stopped at the check after the wait, the cars
\* of the full load waiting for an unboard permit that never comes.
StoppedLoadedWitness ==
    /\ StoppedAfterWait
    /\ sem_full = 0
    /\ \E c \in Cars : carpc[c] = "wait_unboard"

\* pthread_join(ferry_tid) of line 216 has returned
FerryJoined ==
    mainpc \in {"cancel_car", "join_car", "cleanup", "done"}

\* C16: under fair scheduling, once the run duration is over the ferry
\* terminates and main's join of the ferry returns, wherever the ferry is:
\* in particular when it is blocked on sem_full or sem_empty in a cycle
\* in which fewer than FERRY_CAPACITY cars boarded or unboarded.
FerryNeverBlocksForever ==
    late ~> (ferrypc \in Terminated /\ FerryJoined)

\* C16 witness: the ferry was cancelled inside sem_wait(sem_full) in a cycle
\* in which fewer than FERRY_CAPACITY cars boarded, and the join returned.
FerryUnblockedWitness ==
    /\ ferrypc = "cancelled"
    /\ FerryJoined
    /\ fullPosts = 0
    /\ incs < FERRY_CAPACITY
    /\ sem_full = 0
    /\ ~cycleDone

\* C17: a car prints "left the ferry" holding a consumed unboard permit
\* whose decrement is still to come, and makes the decrement only after the
\* print; from its lock of line 147 to its unlock of line 154 it holds the
\* mutex, the value it checks at line 151 is the one its own decrement
\* produced, and between its decrement and its check (and post) no counter
\* update of any car takes place.
UnboardingOrder ==
    /\ [][\A c \in Cars : (c \in left' /\ c \notin left) =>
             /\ carpc[c] = "print_out"
             /\ owes[c] = "dec"
             /\ owes'[c] = "dec"]_vars
    /\ [](\A c \in Cars :
             /\ (carpc[c] \in {"lock_u", "dec"} /\ ~Suppressed) => c \in left
             /\ carpc[c] \in {"dec", "test_empty", "unlock_u"} => mutex = c
             /\ carpc[c] = "test_empty" =>
                    (IsEmpty(cars_on_board) <=> emptier = c))
    /\ [][(\E c \in Cars : carpc[c] = "test_empty") =>
             /\ cars_on_board' = cars_on_board
             /\ incs' = incs
             /\ decs' = decs]_vars

\* C17 witness: a car is between its decrement and its check while another
\* car, having printed "left the ferry", waits for the mutex.
UnboardingOrderWitness ==
    \E c, d \in Cars :
        /\ carpc[c] = "test_empty"
        /\ carpc[d] = "lock_u"
        /\ d \in left

\* C18 (as claimed): while the ferry is between the return of its wait on
\* sem_full and its first post of sem_unboard, every car has boarded exactly
\* once in this cycle and is blocked on, or about to wait on, sem_unboard,
\* and no car holds the mutex.
AllAboardMutexFree ==
    FerryLoaded =>
        /\ \A c \in Cars :
              /\ boards[c] = 1
              /\ carpc[c] \in {"unlock_b", "wait_unboard"}
        /\ mutex = 0

\* C18 (amended): in those states every car has boarded exactly once in
\* this cycle and is blocked on sem_unboard, except that the car that posted
\* sem_full may still be at its unlock of line 136, holding the mutex; no
\* other car holds it, and no car is idle or waiting to board.
AllAboardWhileLoaded ==
    FerryLoaded =>
        /\ fullPoster \in Cars
        /\ \A c \in Cars :
              /\ boards[c] = 1
              /\ owes[c] = "none"
              /\ \/ carpc[c] = "wait_unboard"
                 \/ c = fullPoster /\ carpc[c] = "unlock_b"
        /\ mutex \in {0, fullPoster}
        /\ mutex = fullPoster <=> carpc[fullPoster] = "unlock_b"

\* C18 witness: the ferry is crossing while the car that posted sem_full
\* has not yet released the mutex.
PosterStillLockedWitness ==
    /\ ferrypc = "crossing"
    /\ fullPoster \in Cars
    /\ mutex = fullPoster
    /\ carpc[fullPoster] = "unlock_b"

\* a board permit is available, or consumed and not yet counted
BoardingOpen ==
    sem_board > 0 \/ \E c \in Cars : owes[c] = "inc"

\* an unboard permit is available, or consumed and not yet counted
UnboardingOpen ==
    sem_unboard > 0 \/ \E c \in Cars : owes[c] = "dec"

\* C19: in every reachable state boarding and unboarding are not both open;
\* sem_board and sem_unboard are at most FERRY_CAPACITY each and never both
\* positive; and between the first and the last decrement of a cycle no
\* step increments cars_on_board.
PhasesNeverOverlap ==
    /\ [](/\ ~(BoardingOpen /\ UnboardingOpen)
          /\ sem_board <= FERRY_CAPACITY
          /\ sem_unboard <= FERRY_CAPACITY
          /\ ~(sem_board > 0 /\ sem_unboard > 0))
    /\ [][(0 < decs /\ decs < FERRY_CAPACITY) =>
             cars_on_board' <= cars_on_board]_vars

\* C19 witness: in the middle of an unboarding phase, one car has unboarded
\* and is back at the wait on sem_board while unboard permits remain.
MidUnboardingWitness ==
    /\ 0 < decs
    /\ decs < FERRY_CAPACITY
    /\ sem_unboard > 0
    /\ \E c \in Cars : carpc[c] = "wait_board"

\* C20: of the messages printed in a cycle, "leaves the dock" comes after
\* the "entered the ferry" of all FERRY_CAPACITY cars, each of which comes
\* after that car's increment; "arrives to new dock" comes after "leaves
\* the dock" and before every "left the ferry"; a car's "left the ferry"
\* comes after its "entered the ferry"; and an "entered the ferry" is
\* printed only in a cycle that began after all FERRY_CAPACITY "left the
\* ferry" of the cycle before (or in the first cycle).
EventOrder ==
    /\ departed => entered = Cars
    /\ \A c \in entered : boards[c] = 1
    /\ arrived => departed
    /\ left # {} => arrived
    /\ left \subseteq entered
    /\ entered # {} => prevLeft = Cars

\* C20 witness: a car has printed "entered the ferry" in a later cycle
\* while another car, which unboarded in the cycle before, is still idle.
NextCycleEventWitness ==
    /\ ~Suppressed
    /\ entered # {}
    /\ left = {}
    /\ \E c \in Cars : carpc[c] = "idle"

====
